---- MODULE Spec2Model ----
(***************************************************************************)
(* The validation round engine of mosaic_subnet/validator/__init__.py:     *)
(* Validator.validation_loop, Validator.validate_step,                     *)
(* Validator.calculate_score and Validator.get_weights_history.            *)
(*                                                                         *)
(* A Python dict is a sequence of <<key, value>> pairs in insertion order. *)
(* Weights and normalized scores are fixed-point integers: the float 1.0   *)
(* is the integer One.                                                     *)
(***************************************************************************)
EXTENDS Integers, Sequences, FiniteSets, TLC

VARIABLES
    env,               \* the environment of this run (peers, scorer range, faults)
    th,                \* th[t]: the locals of loop thread t (self._loop_thread)
    weights_histories, \* self.weights_histories, deque(maxlen=10)
    snapshot,          \* what the last get_weights_history call returned
    read_at,           \* how many records had been appended when it returned
    nreads,            \* number of get_weights_history calls answered
    reader,            \* the request thread inside get_weights_history
    stop_requested,    \* a stop of the scheduler has been asked for
    clock,             \* datetime.now() as a logical clock, one tick per record
    log,               \* every WeightHistory appended so far, in append order
    rounds             \* number of rounds started so far

vars == <<env, th, weights_histories, snapshot, read_at, nreads, reader,
          stop_requested, clock, log, rounds>>

----------------------------------------------------------------------------
(* Bounds of the model *)

MaxRounds == 12     \* rounds per behaviour, loop environment
MaxUid == 2         \* peers have uids 1..MaxUid
MaxScore == 2       \* the scorer backend returns -1..MaxScore
MaxElapsed == 2     \* a peer call takes 1..MaxElapsed
MaxThreads == 2     \* loop threads that start_validation_loop may create
LiveRounds == 3     \* rounds per behaviour, liveness environment
MaxReads == 2       \* get_weights_history calls per behaviour, loop environment
One == 12           \* the weight 1.0 in fixed point

(* Program constants *)

HistoryMaxLen == 10        \* deque(maxlen=10)
iteration_interval == 60   \* ValidatorSettings.iteration_interval

Threads == 1..env.threads

----------------------------------------------------------------------------
(* Python containers *)

Min(a, b) == IF a < b THEN a ELSE b

Max(a, b) == IF a < b THEN b ELSE a

\* dict.keys()
Keys(d) == [i \in 1..Len(d) |-> d[i][1]]

\* dict.values()
Values(d) == [i \in 1..Len(d) |-> d[i][2]]

KeySet(d) == {d[i][1] : i \in 1..Len(d)}

\* d[k]
Get(d, k) == d[CHOOSE i \in 1..Len(d) : d[i][1] = k][2]

\* d[k] = v
DictPut(d, k, v) ==
    IF k \in KeySet(d)
    THEN [i \in 1..Len(d) |-> IF d[i][1] = k THEN <<k, v>> ELSE d[i]]
    ELSE Append(d, <<k, v>>)

\* the dict voted as it is, zero weights included
FilterPositive_KeepsAll(d) == d

\* {k: v for k, v in d.items() if v > 0}
RECURSIVE FilterPositive(_)
FilterPositive(d) ==
    IF d = <<>> THEN <<>>
    ELSE IF Head(d)[2] > 0
         THEN <<Head(d)>> \o FilterPositive(Tail(d))
         ELSE FilterPositive(Tail(d))

\* list(zip(a, b, c, d, e)): as long as the shortest argument
Zip5(a, b, c, d, e) ==
    [i \in 1..Min(Len(a), Min(Len(b), Min(Len(c), Min(Len(d), Len(e))))) |->
        <<a[i], b[i], c[i], d[i], e[i]>>]

RECURSIVE SumSeq(_)
SumSeq(s) == IF s = <<>> THEN 0 ELSE Head(s) + SumSeq(Tail(s))

RECURSIVE MaxSeq(_)
MaxSeq(s) == IF s = <<>> THEN 0 ELSE Max(Head(s), MaxSeq(Tail(s)))

\* a deque without maxlen
DequeAppend_Unbounded(dq, x) == Append(dq, x)

\* a full buffer that drops its newest element
DequeAppend_EvictsNewest(dq, x) ==
    IF Len(dq) >= HistoryMaxLen
    THEN Append(SubSeq(dq, 1, Len(dq) - 1), x)
    ELSE Append(dq, x)

\* an append that stores nothing
DequeAppend_Discards(dq, x) == dq

\* deque(maxlen=10).append(x): the oldest element is dropped when full
DequeAppend(dq, x) ==
    IF Len(dq) >= HistoryMaxLen
    THEN Append(Tail(dq), x)
    ELSE Append(dq, x)

\* list(dq): a new list of the deque's elements, left to right
List(dq) == [i \in 1..Len(dq) |-> dq[i]]

\* the endpoint handing out the deque itself
ReturnValue_TheDeque(dq) == [obj |-> "deque", items |-> dq]

\* `return list(self.weights_histories)`: the caller gets a list object of
\* its own, which later appends to the deque do not reach
ReturnValue(dq) == [obj |-> "list", items |-> List(dq)]

\* The injective sequences over S: the orders a dict keyed by uid can have
InjSeqs(S) ==
    UNION {{s \in [1..n -> S] : \A i, j \in 1..n : i # j => s[i] # s[j]} :
           n \in 0..Cardinality(S)}

----------------------------------------------------------------------------
(* Normalizer / Weighting: mosaic_subnet.validator.utils                   *)

\* normalize_score(score_dict, duration_dict): max-score scaling with a
\* latency penalty, never negative, one entry per key of score_dict in order
normalize_score(score_dict, duration_dict) ==
    LET top == MaxSeq(Values(score_dict))
    IN [i \in 1..Len(score_dict) |->
          <<score_dict[i][1],
            IF top <= 0 THEN 0
            ELSE (Max(0, score_dict[i][2]) * One)
                   \div (top * Get(duration_dict, score_dict[i][1]))>>]

\* weight_score(normalized_scores): normalized / sum(normalized), in [0, 1],
\* summing to at most 1, one entry per key of the input in order
weight_score(normalized_scores) ==
    LET total == SumSeq(Values(normalized_scores))
    IN [i \in 1..Len(normalized_scores) |->
          <<normalized_scores[i][1],
            IF total <= 0 THEN 0
            ELSE (normalized_scores[i][2] * One) \div total>>]

----------------------------------------------------------------------------
(* Environments: what the external collaborators may answer in a run       *)

\* the places a loop thread can be at
Pcs ==
    {"unstarted", "loop", "get_miners", "get_input", "futures", "gather", "await"} \cup
    {"score", "weigh", "append", "filter", "vote", "returned", "sleep", "raise"} \cup
    {"dead", "done"}

\* one round over every set of peers, every answer and every score; the
\* caller of get_weights_history asks while the loop sleeps after the round
EnvFull ==
    [rounds |-> 1,
     uids |-> 1..MaxUid,
     payloads |-> {"none", "img"},
     scores |-> (0 - 1)..MaxScore,
     elapsed |-> 1..MaxElapsed,
     durations |-> {45, 60, 75},
     reads |-> 1,
     reads_at |-> {"sleep"},
     threads |-> 1]

\* one peer and many rounds: rounds follow rounds that raised, returned
\* empty or voted, and the history fills up and evicts
EnvLoop ==
    [rounds |-> MaxRounds,
     uids |-> {1},
     payloads |-> {"none", "empty", "img"},
     scores |-> 0..1,
     elapsed |-> {1},
     durations |-> {45, 60, 75},
     reads |-> MaxReads,
     reads_at |-> Pcs,
     threads |-> 1]

\* one peer and a few rounds, for what the loop does in the end
EnvLive ==
    [rounds |-> LiveRounds,
     uids |-> {1},
     payloads |-> {"none", "img"},
     scores |-> 0..1,
     elapsed |-> {1},
     durations |-> {45, 75},
     reads |-> 1,
     reads_at |-> Pcs,
     threads |-> 1]

\* start_validation_loop called more than once: one peer, one round for
\* each thread it creates
EnvTwo ==
    [rounds |-> MaxThreads,
     uids |-> {1},
     payloads |-> {"none", "img"},
     scores |-> 0..1,
     elapsed |-> {1},
     durations |-> {45, 75},
     reads |-> 1,
     reads_at |-> Pcs,
     threads |-> MaxThreads]

----------------------------------------------------------------------------
(* State *)

\* the locals of validation_loop and validate_step before a round;
\* duration is the wall time the last round took, computed or not
FreshLocals(pc) ==
    [pc |-> pc,
     modules_info |-> <<>>,
     miner_answers |-> <<>>,
     queried |-> <<>>,
     i |-> 1,
     scored |-> <<>>,
     score_dict |-> <<>>,
     duration_dict |-> <<>>,
     normalized_scores |-> <<>>,
     weighted_scores |-> <<>>,
     weight_data |-> <<>>,
     appended |-> <<>>,
     votes |-> <<>>,
     raised |-> "",
     prev_raised |-> "",
     duration |-> 0,
     elapsed |-> 0,
     sleep_time |-> 0]

\* Validator.__init__: no loop thread yet, an empty deque
InitState ==
    /\ th = [t \in Threads |-> FreshLocals("unstarted")]
    /\ weights_histories = <<>>
    /\ snapshot = <<>>
    /\ read_at = 0
    /\ nreads = 0
    /\ reader = [pc |-> "idle", version |-> 0, failed |-> FALSE, holds |-> "none"]
    /\ stop_requested = FALSE
    /\ clock = 0
    /\ log = <<>>
    /\ rounds = 0

Init == env = EnvFull /\ InitState

InitLoop == env = EnvLoop /\ InitState

InitLive == env = EnvLive /\ InitState

InitTwo == env = EnvTwo /\ InitState

Shared == <<weights_histories, snapshot, read_at, nreads, reader, stop_requested,
            clock, log, rounds>>

\* list() over the deque is interruptible, as a comprehension would be
CanRun_Interleaved(r) == TRUE

\* list(self.weights_histories) runs inside the interpreter without a
\* switch of threads: no loop thread takes a step while it iterates
CanRun(r) == r.pc # "iter"

Set(t, r) == CanRun(reader) /\ th' = [th EXCEPT ![t] = r]

Goto(t, pc) == Set(t, [th[t] EXCEPT !.pc = pc])

\* an exception leaves validate_step: the round is over, control is in
\* validation_loop's handler
Raise(t, where) == Set(t, [th[t] EXCEPT !.pc = "raise", !.raised = where])

----------------------------------------------------------------------------
(* Validator.calculate_score and the pieces of validate_step               *)

\* `if not miner_answer`: None and b"" are both falsy
Falsy(payload) == payload \in {"none", "empty"}

\* what self.model.get_similarity(img, prompt) can do: return a number of
\* vals, or raise
Outcomes(vals) ==
    {[raises |-> FALSE, value |-> v] : v \in vals} \cup {[raises |-> TRUE, value |-> 0]}

\* calculate_score without its try/except
calculate_score_Propagates(outcome) ==
    [raised |-> outcome.raises, value |-> outcome.value]

\* calculate_score: what the caller gets for an outcome of get_similarity;
\* the except clause absorbs the exception and returns 0.0
calculate_score(outcome) ==
    IF outcome.raises
    THEN [raised |-> FALSE, value |-> 0]
    ELSE [raised |-> FALSE, value |-> outcome.value]

\* the emptiness tests left out
IsEmpty_Never(d) == FALSE

\* `not score_dict`, `not weighted_scores`: an empty dict is falsy
IsEmpty(d) == d = <<>>

\* `break` where the loop has `continue`
Continue_Breaks(i, n) == n + 1

\* `continue` in the scoring loop: on to the next (uid, miner_response)
Continue(i, n) == i + 1

\* the zero test left out
ScoreIsZero_Never(score) == FALSE

\* `if score == 0`
ScoreIsZero(score) == score = 0

\* WeightHistory(time=datetime.now(), data=weight_data)
WeightHistory(time, data) == [time |-> time, data |-> data]

\* .values() where the zip takes weighted_scores.keys()
WeightData_ValuesAsUids(score_dict, duration_dict, normalized_scores, weighted_scores) ==
    Zip5(Values(weighted_scores), Values(score_dict), Values(duration_dict),
         Values(normalized_scores), Values(weighted_scores))

\* the raw scores zipped in the reverse of the order of the keys
WeightData_ScoresReversed(score_dict, duration_dict, normalized_scores, weighted_scores) ==
    Zip5(Keys(weighted_scores),
         [i \in 1..Len(score_dict) |-> score_dict[Len(score_dict) + 1 - i][2]],
         Values(duration_dict), Values(normalized_scores), Values(weighted_scores))

\* weight_data = list(zip(weighted_scores.keys(), score_dict.values(), ...))
WeightData(score_dict, duration_dict, normalized_scores, weighted_scores) ==
    Zip5(Keys(weighted_scores), Values(score_dict), Values(duration_dict),
         Values(normalized_scores), Values(weighted_scores))

\* the weights in another order than the uids, as after sorting them
VoteArgs_Reordered(weighted_scores) ==
    [uids |-> Keys(weighted_scores),
     weights |-> [i \in 1..Len(weighted_scores) |->
                    weighted_scores[Len(weighted_scores) + 1 - i][2]]]

\* the arguments of c_client.vote
VoteArgs(weighted_scores) ==
    [uids |-> Keys(weighted_scores), weights |-> Values(weighted_scores)]

\* normalized_scores = normalize_score(score_dict, duration_dict)
NormalizedScores(score_dict, duration_dict) ==
    normalize_score(score_dict, duration_dict)

\* the normalized scores voted as they are
WeightedScores_Skipped(normalized_scores) == normalized_scores

\* weighted_scores = weight_score(normalized_scores)
WeightedScores(normalized_scores) == weight_score(normalized_scores)

\* c_client.vote called outside any try/except
vote_in_try_Propagates(ok) == [raised |-> ~ok, ok |-> ok, again |-> FALSE]

\* an except clause that calls c_client.vote again
vote_in_try_Retries(ok) == [raised |-> FALSE, ok |-> ok, again |-> ~ok]

\* the try/except around c_client.vote: an exception of the ledger client
\* is logged and goes no further; the clause does not call vote again
vote_in_try(ok) == [raised |-> FALSE, ok |-> ok, again |-> FALSE]

\* the handler lets the exception end the thread
OnException_Dies == "dead"

\* validation_loop's `except Exception`: back to the top of `while True`
OnException == "loop"

\* a loop body that runs once
LoopBack_Once == "done"

\* `while True`: after the body, the top of the loop again
LoopBack == "loop"

\* a call of the round before its result is there; peer is the uid the
\* result came from, 0 for none yet
NoResult(state) == [state |-> state, payload |-> "none", elapsed |-> 0, peer |-> 0]

\* how many calls of the round have completed
NumDone(miner_answers) ==
    Cardinality({i \in 1..Len(miner_answers) : miner_answers[i].state = "done"})

\* results listed in the order the calls complete, as asyncio.as_completed
GatherSlot_CompletionOrder(i, k) == k

\* asyncio.gather(*futures) returns the results in the order of the
\* awaitables: the result of the i-th future, the k-th to complete, is the
\* i-th of miner_answers
GatherSlot(i, k) == i

\* every future awaited alone, the first result ends the wait
AllDone_First(miner_answers) ==
    \E i \in 1..Len(miner_answers) : miner_answers[i].state = "done"

\* await asyncio.gather(*futures) resumes when every future has a result
AllDone(miner_answers) ==
    \A i \in 1..Len(miner_answers) : miner_answers[i].state = "done"

\* the endpoint served by the thread that runs the loop, between rounds
Served_BetweenRounds(pc) == pc \in {"unstarted", "loop"}

\* the loop has a thread of its own (threading.Thread, daemon=True): the
\* endpoints are served whatever the loop is doing
Served(pc) == TRUE

\* time.sleep(interval) after every round
SleepTime_FixedInterval(elapsed) == iteration_interval

\* `if elapsed < settings.iteration_interval: sleep_time = interval - elapsed`
SleepTime(elapsed) ==
    IF elapsed < iteration_interval THEN iteration_interval - elapsed ELSE 0

----------------------------------------------------------------------------
(* Actions of a loop thread *)

\* start_validation_loop: threading.Thread(target=self.validation_loop).start()
StartValidationLoop(t) ==
    /\ t <= env.threads
    /\ th[t].pc = "unstarted"
    /\ Goto(t, "loop")
    /\ UNCHANGED <<env, Shared>>

\* validation_loop: top of `while True`, start_time = time.time(),
\* asyncio.run(self.validate_step()) begins with fresh locals
StartRound(t) ==
    /\ th[t].pc = "loop"
    /\ rounds < env.rounds
    /\ rounds' = rounds + 1
    /\ Set(t, [FreshLocals("get_miners") EXCEPT !.prev_raised = th[t].raised])
    /\ UNCHANGED <<env, weights_histories, snapshot, read_at, nreads, reader,
                   stop_requested, clock, log>>

\* modules_info = self.get_queryable_miners(): a dict keyed by uid, or the
\* registry lookup raises
GetQueryableMiners(t) ==
    /\ th[t].pc = "get_miners"
    /\ \/ \E m \in InjSeqs(env.uids) :
            Set(t, [th[t] EXCEPT !.pc = "get_input", !.modules_info = m])
       \/ Raise(t, "get_miners")
    /\ UNCHANGED <<env, Shared>>

\* input = self.get_validate_input()
GetValidateInput(t) ==
    /\ th[t].pc = "get_input"
    /\ \/ Goto(t, "futures")
       \/ Raise(t, "get_input")
    /\ UNCHANGED <<env, Shared>>

\* the for loop that builds `futures`: one call per value of modules_info
CreateFutures(t) ==
    /\ th[t].pc = "futures"
    /\ Set(t, [th[t] EXCEPT
            !.pc = "gather",
            !.queried = th[t].modules_info,
            !.miner_answers =
                [i \in 1..Len(th[t].modules_info) |-> NoResult("created")]])
    /\ UNCHANGED <<env, Shared>>

\* asyncio.gather(*futures): every coroutine becomes a scheduled task
Gather(t) ==
    /\ th[t].pc = "gather"
    /\ Set(t, [th[t] EXCEPT
            !.pc = "await",
            !.miner_answers =
                [i \in 1..Len(th[t].miner_answers) |-> NoResult("running")]])
    /\ UNCHANGED <<env, Shared>>

\* get_miner_generation_with_elapsed finishes for the i-th peer, in any
\* order: (miner_answer, elapsed), the answer None when the call failed;
\* gather puts the result in its place of the list it will return
PeerReturns(t, i) ==
    LET l == th[t]
        slot == GatherSlot(i, NumDone(l.miner_answers) + 1)
    IN
    /\ l.pc = "await"
    /\ i \in 1..Len(l.miner_answers)
    /\ l.miner_answers[i].state = "running"
    /\ \E p \in env.payloads, e \in env.elapsed :
            Set(t, [l EXCEPT !.miner_answers[i].state = "done",
                             !.miner_answers[slot].payload = p,
                             !.miner_answers[slot].elapsed = e,
                             !.miner_answers[slot].peer = l.modules_info[i]])
    /\ UNCHANGED <<env, Shared>>

\* miner_answers = await asyncio.gather(...): resumes when all are done
GatherReturns(t) ==
    /\ th[t].pc = "await"
    /\ AllDone(th[t].miner_answers)
    /\ Set(t, [th[t] EXCEPT !.pc = "score", !.i = 1])
    /\ UNCHANGED <<env, Shared>>

\* one iteration of `for uid, miner_response in zip(keys, miner_answers)`
ScoreStep(t) ==
    LET l == th[t]
        n == Min(Len(l.modules_info), Len(l.miner_answers))
    IN
    /\ l.pc = "score"
    /\ l.i <= n
    /\ LET uid == l.modules_info[l.i]
           miner_answer == l.miner_answers[l.i].payload
           elapsed == l.miner_answers[l.i].elapsed
       IN IF Falsy(miner_answer)
          THEN Set(t, [l EXCEPT !.i = Continue(l.i, n)])
          ELSE \E outcome \in Outcomes(env.scores) :
                 LET r == calculate_score(outcome)
                     score == r.value
                 IN IF r.raised
                    THEN Set(t, [l EXCEPT !.pc = "raise",
                                          !.raised = "score",
                                          !.scored = Append(@, <<uid, outcome>>)])
                    ELSE IF ScoreIsZero(score)
                    THEN Set(t, [l EXCEPT !.i = Continue(l.i, n),
                                          !.scored = Append(@, <<uid, outcome>>)])
                    ELSE Set(t, [l EXCEPT
                            !.i = l.i + 1,
                            !.scored = Append(@, <<uid, outcome>>),
                            !.score_dict = DictPut(@, uid, score),
                            !.duration_dict = DictPut(@, uid, elapsed)])
    /\ UNCHANGED <<env, Shared>>

\* `if not score_dict: return`
CheckScoreDict(t) ==
    LET l == th[t]
    IN
    /\ l.pc = "score"
    /\ l.i > Min(Len(l.modules_info), Len(l.miner_answers))
    /\ IF IsEmpty(l.score_dict)
       THEN Goto(t, "returned")
       ELSE Goto(t, "weigh")
    /\ UNCHANGED <<env, Shared>>

\* normalize_score, weight_score and the zip into weight_data
Weigh(t) ==
    LET l == th[t]
        normalized_scores == NormalizedScores(l.score_dict, l.duration_dict)
        weighted_scores == WeightedScores(normalized_scores)
    IN
    /\ l.pc = "weigh"
    /\ \/ Set(t, [l EXCEPT
                !.pc = "append",
                !.normalized_scores = normalized_scores,
                !.weighted_scores = weighted_scores,
                !.weight_data = WeightData(l.score_dict, l.duration_dict,
                                           normalized_scores, weighted_scores)])
       \/ Raise(t, "weigh")
    /\ UNCHANGED <<env, Shared>>

\* self.weights_histories.append(WeightHistory(...))
AppendHistory(t) ==
    LET l == th[t]
        rec == WeightHistory(clock + 1, l.weight_data)
    IN
    /\ l.pc = "append"
    /\ clock' = clock + 1
    /\ weights_histories' = DequeAppend(weights_histories, rec)
    /\ log' = Append(log, rec)
    /\ snapshot' = IF reader.holds = "deque" THEN weights_histories' ELSE snapshot
    /\ Set(t, [l EXCEPT !.pc = "filter", !.appended = Append(@, rec)])
    /\ UNCHANGED <<env, read_at, nreads, reader, stop_requested, rounds>>

\* weighted_scores = {k: v ... if v > 0}; `if not weighted_scores: return`
FilterWeights(t) ==
    LET l == th[t]
        weighted_scores == FilterPositive(l.weighted_scores)
    IN
    /\ l.pc = "filter"
    /\ Set(t, [l EXCEPT
            !.pc = IF IsEmpty(weighted_scores) THEN "returned" ELSE "vote",
            !.weighted_scores = weighted_scores])
    /\ UNCHANGED <<env, Shared>>

\* self.c_client.vote(...) inside try/except: it succeeds, or it raises and
\* the error is logged
Vote(t) ==
    LET l == th[t]
        args == VoteArgs(l.weighted_scores)
    IN
    /\ l.pc = "vote"
    /\ \E ok \in BOOLEAN :
         LET r == vote_in_try(ok)
         IN Set(t, [l EXCEPT
            !.pc = IF r.raised THEN "raise"
                   ELSE IF r.again THEN "vote" ELSE "returned",
            !.raised = IF r.raised THEN "vote" ELSE @,
            !.votes = Append(@, [uids |-> args.uids,
                                 weights |-> args.weights,
                                 ok |-> r.ok])])
    /\ UNCHANGED <<env, Shared>>

\* validate_step returned and its frame is gone: elapsed = time.time() -
\* start_time, then the sleep when the round was shorter than the interval
RoundReturns(t) ==
    /\ th[t].pc = "returned"
    /\ \E d \in env.durations :
         Set(t, [FreshLocals(IF SleepTime(d) > 0 THEN "sleep" ELSE LoopBack)
                 EXCEPT !.duration = d, !.elapsed = d, !.sleep_time = SleepTime(d)])
    /\ UNCHANGED <<env, Shared>>

\* time.sleep(sleep_time) returns
WakeUp(t) ==
    /\ th[t].pc = "sleep"
    /\ Goto(t, LoopBack)
    /\ UNCHANGED <<env, Shared>>

\* `except Exception as e: print(traceback.format_exc())`; the frame of
\* validate_step is gone, the round took d, and no line of the handler
\* computes elapsed or sleeps
CatchException(t) ==
    /\ th[t].pc = "raise"
    /\ \E d \in env.durations :
         Set(t, [FreshLocals(OnException)
                 EXCEPT !.raised = th[t].raised, !.duration = d])
    /\ UNCHANGED <<env, Shared>>

\* the endpoint get_weights_history is called, from the request thread at
\* any moment the run's caller chooses: list() starts to iterate over the
\* deque as it is now
GetWeightsHistory ==
    /\ nreads < env.reads
    /\ reader.pc = "idle"
    /\ \A t \in Threads : th[t].pc \in env.reads_at
    /\ \A t \in Threads : Served(th[t].pc)
    /\ reader' = [reader EXCEPT !.pc = "iter", !.version = Len(log)]
    /\ UNCHANGED <<env, th, weights_histories, snapshot, read_at, nreads,
                   stop_requested, clock, log, rounds>>

\* list(self.weights_histories) returns the copy; a deque appended to
\* since the iteration began makes it raise RuntimeError instead
ListReturns ==
    /\ reader.pc = "iter"
    /\ nreads' = nreads + 1
    /\ IF reader.version = Len(log)
       THEN LET result == ReturnValue(weights_histories)
            IN /\ snapshot' = result.items
               /\ read_at' = Len(log)
               /\ reader' = [reader EXCEPT !.pc = "idle", !.holds = result.obj]
       ELSE /\ reader' = [reader EXCEPT !.pc = "idle", !.failed = TRUE]
            /\ UNCHANGED <<snapshot, read_at>>
    /\ UNCHANGED <<env, th, weights_histories, stop_requested, clock, log, rounds>>

\* a stop of the scheduler is asked for; nothing in validation_loop reads it
RequestStop ==
    /\ ~stop_requested
    /\ stop_requested' = TRUE
    /\ UNCHANGED <<env, th, weights_histories, snapshot, read_at, nreads, reader,
                   clock, log, rounds>>

\* a step of loop thread t
ThreadStep(t) ==
    /\ t \in Threads
    /\ \/ StartValidationLoop(t)
       \/ StartRound(t)
       \/ GetQueryableMiners(t)
       \/ GetValidateInput(t)
       \/ CreateFutures(t)
       \/ Gather(t)
       \/ \E i \in 1..MaxUid : PeerReturns(t, i)
       \/ GatherReturns(t)
       \/ ScoreStep(t)
       \/ CheckScoreDict(t)
       \/ Weigh(t)
       \/ AppendHistory(t)
       \/ FilterWeights(t)
       \/ Vote(t)
       \/ RoundReturns(t)
       \/ WakeUp(t)
       \/ CatchException(t)

Next ==
    \/ \E t \in Threads :
        \/ StartValidationLoop(t)
        \/ StartRound(t)
        \/ GetQueryableMiners(t)
        \/ GetValidateInput(t)
        \/ CreateFutures(t)
        \/ Gather(t)
        \/ \E i \in 1..MaxUid : PeerReturns(t, i)
        \/ GatherReturns(t)
        \/ ScoreStep(t)
        \/ CheckScoreDict(t)
        \/ Weigh(t)
        \/ AppendHistory(t)
        \/ FilterWeights(t)
        \/ Vote(t)
        \/ RoundReturns(t)
        \/ WakeUp(t)
        \/ CatchException(t)
    \/ GetWeightsHistory
    \/ ListReturns

NextStop == Next \/ RequestStop

Spec == Init /\ [][Next]_vars

SpecLoop == InitLoop /\ [][Next]_vars

\* the loop thread keeps running once started, every call it waits for
\* returns or fails, and list() ends
SpecLive ==
    /\ InitLive
    /\ [][Next]_vars
    /\ \A t \in 1..MaxThreads : WF_vars(ThreadStep(t))
    /\ WF_vars(ListReturns)

\* the loop with a caller that may ask for a stop
SpecStop == InitLive /\ [][NextStop]_vars

\* start_validation_loop called by serve and by another caller
SpecTwo == InitTwo /\ [][Next]_vars

----------------------------------------------------------------------------
(* Vocabulary of the properties *)

Range(q) == {q[i] : i \in 1..Len(q)}

\* the scoring loop of the round is over
ScoringDone(l) == l.pc \in {"weigh", "append", "filter", "vote", "returned"}

\* the round got past the scoring loop, whether it then returned or raised
PastScoring(l) ==
    \/ ScoringDone(l)
    \/ l.pc = "raise" /\ l.raised \in {"weigh", "vote"}

\* the uids of the records this round appended, and of the votes it sent
RecordUids(l) ==
    UNION {{rec.data[j][1] : j \in 1..Len(rec.data)} : rec \in Range(l.appended)}

VoteUids(l) == UNION {Range(v.uids) : v \in Range(l.votes)}

\* the peers whose call returned a payload / returned none
Answered(l) ==
    {i \in 1..Len(l.miner_answers) :
        l.miner_answers[i].state = "done" /\ ~Falsy(l.miner_answers[i].payload)}

Unanswered(l) ==
    {i \in 1..Len(l.miner_answers) :
        l.miner_answers[i].state = "done" /\ Falsy(l.miner_answers[i].payload)}

\* the raw score the backend gave uid was usable: no exception, not 0
ScoredNonZero(l, uid) ==
    /\ uid \in KeySet(l.scored)
    /\ ~Get(l.scored, uid).raises
    /\ Get(l.scored, uid).value # 0

\* the weight computed for uid in this round's weight_data
RoundWeight(l, uid) ==
    l.weight_data[CHOOSE j \in 1..Len(l.weight_data) : l.weight_data[j][1] = uid][5]

VoteFailed(l) == \E v \in Range(l.votes) : ~v.ok

----------------------------------------------------------------------------
(* C1: an exception that leaves validate_step is caught by validation_loop: *)
(* the thread's next step takes it back to the top of `while True`, from    *)
(* where the next round starts; the thread never ends.                      *)
C1_LoopSurvivesRound ==
    [][\A t \in Threads :
          /\ th'[t].pc # "dead"
          /\ (th[t].pc = "raise" /\ th'[t] # th[t]) =>
                /\ th'[t].pc = "loop"
                /\ (rounds < env.rounds => ENABLED StartRound(t))']_vars

\* a round has started after a round that raised
C1_Witness ==
    \E t \in Threads : th[t].pc = "get_miners" /\ th[t].prev_raised # ""

(* C2: peers whose call failed do not abort the round: once the scoring    *)
(* loop is over every peer that returned a payload has been scored, and    *)
(* with a usable score it is in score_dict, in the weights, in the record  *)
(* the round appends and, with a positive weight, in the vote; the failed  *)
(* peers are in none of them.                                              *)
C2_PeerFailureIsolated ==
    \A t \in Threads :
        LET l == th[t]
        IN /\ l.raised # "gather"
           /\ \A i \in Unanswered(l) : l.modules_info[i] \notin KeySet(l.score_dict)
           /\ ScoringDone(l) =>
                \A i \in Answered(l) :
                    LET uid == l.modules_info[i]
                    IN /\ uid \in KeySet(l.scored)
                       /\ ScoredNonZero(l, uid) =>
                            /\ uid \in KeySet(l.score_dict)
                            /\ l.pc \in {"append", "filter", "vote"} =>
                                   uid \in KeySet(l.normalized_scores)
                            /\ l.appended # <<>> => uid \in RecordUids(l)
                            /\ (l.votes # <<>> /\ RoundWeight(l, uid) > 0) =>
                                   uid \in VoteUids(l)

\* a round of two peers, one failed, the other voted on
C2_Witness ==
    \E t \in Threads :
        /\ Len(th[t].modules_info) >= 2
        /\ Unanswered(th[t]) # {}
        /\ th[t].votes # <<>>
        /\ \E i \in Answered(th[t]) : th[t].modules_info[i] \in VoteUids(th[t])

(* C3: when the scorer backend raises for a peer, calculate_score gives 0: *)
(* the round does not raise, the peer stays out of score_dict, and every   *)
(* other peer with a payload is still scored and, with a usable score,     *)
(* enters score_dict and the rest of the round.                            *)
C3_ScoringFailureAbsorbed ==
    \A t \in Threads :
        LET l == th[t]
            failed == {l.scored[k][1] : k \in {j \in 1..Len(l.scored) : l.scored[j][2].raises}}
        IN /\ l.raised # "score"
           /\ \A uid \in failed :
                /\ calculate_score(Get(l.scored, uid)).value = 0
                /\ uid \notin KeySet(l.score_dict)
                /\ uid \notin RecordUids(l) \cup VoteUids(l)
           /\ (failed # {} /\ ScoringDone(l)) =>
                \A i \in Answered(l) :
                    /\ l.modules_info[i] \in KeySet(l.scored)
                    /\ ScoredNonZero(l, l.modules_info[i]) =>
                          l.modules_info[i] \in KeySet(l.score_dict)

\* the scorer raised for one peer and the round voted on another
C3_Witness ==
    \E t \in Threads :
        /\ \E k \in 1..Len(th[t].scored) : th[t].scored[k][2].raises
        /\ th[t].votes # <<>>
        /\ th[t].pc = "returned"

(* C4: when c_client.vote raises, the round's record is already in the     *)
(* history, validate_step returns normally, and the thread's next step is  *)
(* the loop's sleep or its next iteration.                                 *)
C4_VoteFailureAfterAppend ==
    [][\A t \in Threads :
          VoteFailed(th[t]) =>
            /\ th[t].pc = "returned"
            /\ th[t].raised = ""
            /\ Len(th[t].appended) = 1
            /\ th[t].appended[1] \in Range(weights_histories)
            /\ th'[t] # th[t] => th'[t].pc \in {"sleep", "loop"}]_vars

\* the vote of a round failed
C4_Witness ==
    \E t \in Threads :
        /\ VoteFailed(th[t])
        /\ th[t].pc = "returned"
        /\ th[t].appended # <<>>

(* C5: a round whose score_dict is empty after the scoring loop calls no   *)
(* vote and does not raise; this covers the round with no peers and the    *)
(* round in which no peer answers.                                         *)
C5_EmptyScoreSetNoVote ==
    \A t \in Threads :
        (PastScoring(th[t]) /\ th[t].score_dict = <<>>) =>
            /\ th[t].votes = <<>>
            /\ th[t].pc = "returned"

\* a round of two peers that both failed has returned
C5_Witness ==
    \E t \in Threads :
        /\ th[t].pc = "returned"
        /\ Len(th[t].modules_info) >= 2
        /\ Unanswered(th[t]) = 1..Len(th[t].modules_info)
        /\ th[t].score_dict = <<>>

(* C6: a peer whose payload is absent, or whose raw score is 0, is dropped  *)
(* for the round: it is not in score_dict, not in the normalized or        *)
(* weighted scores, not in the record and not in the vote; the scorer is   *)
(* not invoked for an absent payload; no peer is queried or scored twice   *)
(* in a round.                                                             *)
C6_DroppedPeerStaysOut ==
    \A t \in Threads :
        LET l == th[t]
            zero == {l.scored[k][1] :
                        k \in {j \in 1..Len(l.scored) :
                                  calculate_score(l.scored[j][2]).value = 0}}
            absent == {l.modules_info[i] : i \in Unanswered(l)}
        IN /\ absent \cap KeySet(l.scored) = {}
           /\ \A uid \in absent \cup zero :
                /\ uid \notin KeySet(l.score_dict)
                /\ uid \notin KeySet(l.normalized_scores)
                /\ uid \notin KeySet(l.weighted_scores)
                /\ uid \notin RecordUids(l)
                /\ uid \notin VoteUids(l)
           /\ \A i, j \in 1..Len(l.queried) : i # j => l.queried[i] # l.queried[j]
           /\ \A i, j \in 1..Len(l.scored) : i # j => l.scored[i][1] # l.scored[j][1]

\* a round voted while the backend had scored one of its peers exactly 0
C6_Witness ==
    \E t \in Threads :
        /\ th[t].votes # <<>>
        /\ \E k \in 1..Len(th[t].scored) :
              ~th[t].scored[k][2].raises /\ th[t].scored[k][2].value = 0

(* C7: no weight without a score: the uids of the vote are uids of the     *)
(* round's record, these are keys of the round's score_dict, and these are *)
(* peers the round queried.                                                *)
C7_NoWeightWithoutScore ==
    \A t \in Threads :
        LET l == th[t]
        IN /\ VoteUids(l) \subseteq RecordUids(l)
           /\ RecordUids(l) \subseteq KeySet(l.score_dict)
           /\ KeySet(l.score_dict) \subseteq Range(l.queried)
           /\ Range(l.queried) \subseteq Range(l.modules_info)

\* a vote was sent for fewer peers than were queried
C7_Witness ==
    \E t \in Threads :
        /\ th[t].votes # <<>>
        /\ VoteUids(th[t]) # Range(th[t].queried)
        /\ VoteUids(th[t]) # {}

(* C8: in every vote the weights are non-negative and sum to at most 1.    *)
C8_VoteWeightsBounded ==
    \A t \in Threads :
        \A v \in Range(th[t].votes) :
            /\ \A k \in 1..Len(v.weights) : v.weights[k] >= 0 /\ v.weights[k] <= One
            /\ SumSeq(v.weights) <= One

\* a vote for two peers was sent
C8_Witness ==
    \E t \in Threads :
        \E v \in Range(th[t].votes) : Len(v.weights) >= 2 /\ SumSeq(v.weights) > 0

(* C9: the history never holds more than 10 records, and neither does a    *)
(* snapshot read from it.                                                  *)
C9_HistoryBounded ==
    /\ Len(weights_histories) <= HistoryMaxLen
    /\ Len(snapshot) <= HistoryMaxLen

\* the history is full and has evicted
C9_Witness ==
    /\ Len(weights_histories) = HistoryMaxLen
    /\ Len(log) > HistoryMaxLen

\* the last n elements of q
LastN(q, n) == SubSeq(q, Len(q) - n + 1, Len(q))

(* C10: after n appends the history, and a snapshot taken then, is the     *)
(* last min(n, 10) appended records in append order, oldest first.         *)
C10_HistoryIsFifoWindow ==
    /\ weights_histories = LastN(log, Min(Len(log), HistoryMaxLen))
    /\ read_at <= Len(log)
    /\ snapshot = LastN(SubSeq(log, 1, read_at), Min(read_at, HistoryMaxLen))
    /\ \A i, j \in 1..Len(log) : i < j => log[i].time < log[j].time

\* a snapshot taken after 11 appends starts at the second record
C10_Witness ==
    /\ read_at = HistoryMaxLen + 1
    /\ Len(snapshot) = HistoryMaxLen
    /\ snapshot[1] = log[2]
    /\ snapshot[HistoryMaxLen] = log[HistoryMaxLen + 1]

(* C11: when validate_step returns after a round that took d, the loop     *)
(* sleeps max(0, interval - d), 15 for d = 45 and nothing for d = 75, and   *)
(* goes to the top of the loop right after; the sleep is a function of     *)
(* this round's duration alone, whatever the rounds before it took.        *)
C11_SleepIsIntervalMinusDuration ==
    [][\A t \in Threads :
          /\ (th[t].pc = "returned" /\ th'[t] # th[t]) =>
                LET d == th'[t].duration
                    sleep_time == th'[t].sleep_time
                IN /\ sleep_time = Max(0, iteration_interval - d)
                   /\ d = 45 => sleep_time = 15
                   /\ d = 75 => sleep_time = 0
                   /\ (th'[t].pc = "sleep") <=> (sleep_time > 0)
                   /\ (th'[t].pc = "loop") <=> (sleep_time = 0)
          /\ (th[t].pc = "sleep" /\ th'[t] # th[t]) =>
                th'[t].pc = "loop" /\ rounds' = rounds]_vars

\* a round after the first took 45 and the loop sleeps 15
C11_Witness ==
    \E t \in Threads :
        /\ th[t].pc = "sleep"
        /\ th[t].duration = 45
        /\ th[t].sleep_time = 15
        /\ rounds >= 2

(* C12: after a round that ended with an exception the loop sleeps         *)
(* max(0, interval - d) for the duration d of that round before the next   *)
(* round, as it does after a round that returned.                          *)
C12_FailedRoundSleeps ==
    [][\A t \in Threads :
          (th[t].pc = "raise" /\ th'[t] # th[t]) =>
              /\ th'[t].sleep_time = Max(0, iteration_interval - th'[t].duration)
              /\ th'[t].duration < iteration_interval => th'[t].pc = "sleep"]_vars

\* the weight this round's scores give uid
ExpectedWeight(l, uid) ==
    Get(weight_score(normalize_score(l.score_dict, l.duration_dict)), uid)

(* C13: every vote call gets uids and weights of the same length, the      *)
(* weight at index i is the weight computed in this round for the peer at  *)
(* index i, and no uid occurs twice.                                       *)
C13_VoteIndexAligned ==
    \A t \in Threads :
        \A v \in Range(th[t].votes) :
            /\ Len(v.uids) = Len(v.weights)
            /\ \A i \in 1..Len(v.uids) :
                  /\ v.uids[i] \in KeySet(th[t].score_dict)
                  /\ v.weights[i] = ExpectedWeight(th[t], v.uids[i])
            /\ \A i, j \in 1..Len(v.uids) : i # j => v.uids[i] # v.uids[j]

\* a vote for two peers with different weights
C13_Witness ==
    \E t \in Threads :
        \E v \in Range(th[t].votes) :
            Len(v.uids) = 2 /\ v.weights[1] # v.weights[2]

(* C14: no vote holds a weight of 0 and no vote is empty: when every       *)
(* weight of the round is 0 the vote is not called.                        *)
C14_NoZeroWeightVoted ==
    \A t \in Threads :
        LET l == th[t]
        IN /\ \A v \in Range(l.votes) :
                /\ Len(v.uids) > 0
                /\ Len(v.weights) > 0
                /\ \A i \in 1..Len(v.weights) : v.weights[i] # 0
           /\ (\A j \in 1..Len(l.weight_data) : l.weight_data[j][5] = 0) =>
                l.votes = <<>> /\ l.pc # "vote"

\* a round recorded two peers, one with weight 0, and voted for the other
C14_Witness ==
    \E t \in Threads :
        /\ Len(th[t].weight_data) = 2
        /\ \E j \in 1..2 : th[t].weight_data[j][5] = 0
        /\ \E v \in Range(th[t].votes) : Len(v.uids) = 1

(* C15: a round is a fan-out / fan-in barrier: all peer calls of the round  *)
(* are started together, before any of them has completed, each running    *)
(* call can complete whatever the others do, and nothing is scored,        *)
(* weighted, appended or voted while a call of the round is unfinished.    *)
C15_FanOutFanInBarrier ==
    \A t \in Threads :
        LET l == th[t]
            a == l.miner_answers
            states == {a[i].state : i \in 1..Len(a)}
        IN /\ states \subseteq {"created"} \/ states \subseteq {"running", "done"}
           /\ l.pc \in {"gather", "await", "score"} \cup
                      {"weigh", "append", "filter", "vote"} =>
                  Len(a) = Len(l.modules_info)
           /\ (l.pc = "await" /\ reader.pc # "iter") =>
                  \A i \in 1..Len(a) :
                      a[i].state = "running" => ENABLED PeerReturns(t, i)
           /\ (\/ l.pc \in {"score", "weigh", "append", "filter", "vote"}
               \/ l.scored # <<>>
               \/ l.score_dict # <<>>
               \/ l.normalized_scores # <<>>
               \/ l.appended # <<>>
               \/ l.votes # <<>>) =>
                  states \subseteq {"done"}

\* the second peer's call has completed while the first is still running
C15_Witness ==
    \E t \in Threads :
        /\ th[t].pc = "await"
        /\ Len(th[t].miner_answers) = 2
        /\ th[t].miner_answers[1].state = "running"
        /\ th[t].miner_answers[2].state = "done"

C17_QueryDecoupled ==
    [][/\ (reader.pc = "idle" /\ nreads < env.reads) => ENABLED GetWeightsHistory
       /\ reader.pc = "iter" => ENABLED ListReturns
       /\ reader' # reader =>
            /\ th' = th
            /\ weights_histories' = weights_histories
            /\ log' = log
            /\ clock' = clock
            /\ rounds' = rounds
       /\ reader.pc = "idle" =>
            \A t \in 1..env.threads :
                \/ ENABLED ThreadStep(t)
                \/ th[t].pc = "loop" /\ rounds = env.rounds]_vars

\* a read in progress while the peer calls of a round are in flight, after
\* an earlier read was answered
C17_Witness ==
    /\ reader.pc = "iter"
    /\ nreads = 1
    /\ \E t \in Threads :
          /\ th[t].pc = "await"
          /\ \E i \in 1..Len(th[t].miner_answers) :
                th[t].miner_answers[i].state = "running"

\* the scheduler's two states: between rounds, and a round in flight
Idle(l) == l.pc \in {"unstarted", "loop", "sleep"}

Running(l) == ~Idle(l)

(* C18: the loop thread starts between rounds, never reaches a state it    *)
(* cannot leave, every round in flight ends between rounds again, whether  *)
(* it returned or raised, and between rounds the next round starts (while  *)
(* the model has rounds left).                                             *)
C18_IdleRunningForever ==
    \A t \in 1..MaxThreads :
        /\ t \in Threads => Idle(th[t])
        /\ [](t \in Threads => th[t].pc \notin {"dead", "done"})
        /\ []((t \in Threads /\ Running(th[t])) =>
                <>(t \in Threads /\ Idle(th[t])))
        /\ []((t \in Threads /\ Idle(th[t]) /\ rounds < env.rounds) =>
                <>(t \in Threads /\ Running(th[t])))

\* back between rounds after a round that raised, with a round before it
\* and the next round still to start
C18_Witness ==
    \E t \in Threads :
        /\ th[t].pc = "loop"
        /\ th[t].raised # ""
        /\ rounds = 2
        /\ rounds < env.rounds

(* C19: once a stop of the scheduler has been requested, no further round  *)
(* is started.                                                             *)
C19_NoRoundAfterStop ==
    [][stop_requested => rounds' = rounds]_vars

\* the newest record of the history is the one this round built
NewestIsRoundRecord(l) ==
    /\ Len(l.appended) = 1
    /\ l.appended[1].data = l.weight_data
    /\ weights_histories # <<>>
    /\ weights_histories[Len(weights_histories)] = l.appended[1]

(* C20: a round with a non-empty score_dict whose weighting completed has  *)
(* appended exactly one record by the time it filters the weights, votes   *)
(* or returns, also when every weight is 0 and nothing is voted; a round   *)
(* appends at most once, and a vote is never sent before the append.       *)
C20_OneAppendBeforeVote ==
    \A t \in Threads :
        LET l == th[t]
        IN /\ Len(l.appended) <= 1
           /\ Len(l.votes) <= 1
           /\ l.pc \in {"get_miners", "get_input", "futures", "gather"} \cup
                      {"await", "score", "weigh", "append"} =>
                  l.appended = <<>> /\ l.votes = <<>>
           /\ l.pc \in {"filter", "vote"} => NewestIsRoundRecord(l)
           /\ (l.pc = "returned" /\ l.score_dict # <<>>) => NewestIsRoundRecord(l)
           /\ l.votes # <<>> => NewestIsRoundRecord(l)

\* a round returned with its record appended and nothing voted: every
\* weight was 0
C20_Witness ==
    \E t \in Threads :
        /\ th[t].pc = "returned"
        /\ th[t].score_dict # <<>>
        /\ Len(th[t].appended) = 1
        /\ th[t].votes = <<>>
        /\ \A j \in 1..Len(th[t].weight_data) : th[t].weight_data[j][5] = 0
        /\ th[t].appended[1] \in Range(weights_histories)

(* C21: a round whose score_dict is empty leaves the history as it was: it *)
(* appends nothing, the history holds no record without tuples, and the    *)
(* history changes only in the append step of a round with scores, so      *)
(* empty rounds evict nothing.                                             *)
C21_EmptyRoundLeavesHistory ==
    [][/\ \A t \in Threads :
            (th[t].score_dict = <<>> /\ th'[t] # th[t]) =>
                /\ th[t].appended = <<>>
                /\ weights_histories' = weights_histories
                /\ log' = log
       /\ weights_histories' # weights_histories =>
            \E t \in Threads :
                /\ th[t].pc = "append"
                /\ th[t].score_dict # <<>>
                /\ th'[t].pc = "filter"
       /\ \A i \in 1..Len(weights_histories) : weights_histories[i].data # <<>>]_vars

\* the round after the history filled up scored nobody and has returned:
\* the oldest record is still there
C21_Witness ==
    /\ Len(weights_histories) = HistoryMaxLen
    /\ weights_histories[1] = log[1]
    /\ rounds = HistoryMaxLen + 1
    /\ \E t \in Threads :
          /\ th[t].pc = "returned"
          /\ th[t].score_dict = <<>>
          /\ th[t].miner_answers # <<>>

\* the position of uid in modules_info, which is the position of its call
\* in futures and of its result in miner_answers
CallIndex(l, uid) == CHOOSE i \in 1..Len(l.modules_info) : l.modules_info[i] = uid

C23_ResponseAttributedToPeer ==
    \A t \in Threads :
        LET l == th[t]
            a == l.miner_answers
        IN /\ \A i \in 1..Len(a) :
                 /\ a[i].state = "done" => a[i].peer = l.modules_info[i]
                 /\ a[i].state # "done" => a[i].peer = 0
           /\ \A k \in 1..Len(l.scored) :
                 LET r == a[CallIndex(l, l.scored[k][1])]
                 IN r.peer = l.scored[k][1] /\ ~Falsy(r.payload)
           /\ \A k \in 1..Len(l.duration_dict) :
                 LET r == a[CallIndex(l, l.duration_dict[k][1])]
                 IN r.peer = l.duration_dict[k][1] /\ r.elapsed = l.duration_dict[k][2]
           /\ \A q \in 1..Len(l.appended) :
                 \A j \in 1..Len(l.appended[q].data) :
                     \E i \in 1..Len(a) :
                         /\ a[i].peer = l.appended[q].data[j][1]
                         /\ a[i].elapsed = l.appended[q].data[j][3]

\* the peer called second answered in less time than the peer called
\* first, and each is recorded with the elapsed time of its own call
C23_Witness ==
    \E t \in Threads :
        /\ Len(th[t].appended) = 1
        /\ Len(th[t].modules_info) = 2
        /\ LET data == th[t].appended[1].data
               a == th[t].miner_answers
           IN /\ Len(data) = 2
              /\ a[1].elapsed > a[2].elapsed
              /\ data[1][1] = a[1].peer
              /\ data[2][1] = a[2].peer
              /\ data[1][3] > data[2][3]

(* C24: what get_weights_history returned changes only when the accessor   *)
(* returns again: an append or an eviction after the return leaves the     *)
(* returned sequence as it was, and the accessor's own steps leave the     *)
(* history as it was.                                                      *)
C24_SnapshotIsolated ==
    [][/\ snapshot' # snapshot => reader.pc = "iter" /\ reader'.pc = "idle"
       /\ weights_histories' # weights_histories =>
            /\ snapshot' = snapshot
            /\ Len(snapshot') = Len(snapshot)
       /\ reader.holds # "none" => reader.holds = "list"
       /\ (reader.pc = "idle" /\ reader'.pc = "iter") \/ (reader.pc = "iter" /\ reader'.pc = "idle") =>
            /\ weights_histories' = weights_histories
            /\ log' = log]_vars

\* every record of the one snapshot taken has since been evicted from the
\* history, and the snapshot still holds them
C24_Witness ==
    /\ nreads = 1
    /\ reader.pc = "idle"
    /\ read_at >= 2
    /\ Len(snapshot) = read_at
    /\ snapshot = SubSeq(log, 1, read_at)
    /\ Len(weights_histories) = HistoryMaxLen
    /\ \A i \in 1..Len(snapshot) : snapshot[i] \notin Range(weights_histories)

(* C25: a round calls c_client.vote at most once: the call is made from    *)
(* the vote step with no earlier call in the round and with the weights    *)
(* computed from this round's scores; after the call, failed or not, the   *)
(* thread's next step ends the round, and a thread between rounds votes    *)
(* only after a new round has started.                                     *)
C25_VoteAtMostOncePerRound ==
    [][\A t \in Threads :
          LET l == th[t]
              n == th'[t]
          IN /\ Len(l.votes) <= 1
             /\ n.votes # l.votes /\ n.votes # <<>> =>
                  /\ l.pc = "vote"
                  /\ l.votes = <<>>
                  /\ Len(n.votes) = 1
                  /\ rounds' = rounds
                  /\ \A i \in 1..Len(n.votes[1].uids) :
                        n.votes[1].weights[i] = ExpectedWeight(l, n.votes[1].uids[i])
             /\ (l.votes # <<>> /\ n # l) =>
                  /\ l.pc = "returned"
                  /\ n.pc \in {"sleep", "loop"}
                  /\ n.votes = <<>>
             /\ (l.pc \in {"sleep", "loop"} /\ n # l) =>
                  /\ n.votes = <<>>
                  /\ n.pc = "get_miners" => rounds' = rounds + 1
                  /\ n.pc \in {"sleep", "loop", "get_miners"}]_vars

\* the vote of a round after the first failed and the round has returned
\* with that one attempt
C25_Witness ==
    \E t \in Threads :
        /\ rounds >= 2
        /\ th[t].pc = "returned"
        /\ Len(th[t].votes) = 1
        /\ ~th[t].votes[1].ok
        /\ Len(log) >= 2

(* C26: every raw score in score_dict, and so every raw score given to     *)
(* normalize_score and written to a record, is strictly greater than 0,    *)
(* whatever the scorer backend returned.                                   *)
C26_ScoreEntriesPositive ==
    \A t \in Threads :
        /\ \A k \in 1..Len(th[t].score_dict) : th[t].score_dict[k][2] > 0
        /\ \A q \in 1..Len(th[t].appended) :
              \A j \in 1..Len(th[t].appended[q].data) :
                  th[t].appended[q].data[j][2] > 0

(* C27: at most one validation round is in flight at any time, so the      *)
(* history has one writer and one vote is submitted at a time.             *)
C27_AtMostOneRoundInFlight ==
    /\ Cardinality({t \in Threads : Running(th[t])}) <= 1
    /\ Cardinality({t \in Threads : th[t].pc = "append"}) <= 1
    /\ Cardinality({t \in Threads : th[t].pc = "vote"}) <= 1

====
